---- MODULE Spec2Model ----
(***************************************************************************)
(* Model of src/src/ape/api/providers.py: the confirmation wait of         *)
(* ReceiptAPI.await_confirmations, the ConfirmationsProgressBar it drives, *)
(* and Web3Provider.get_transaction / send_transaction / update_settings.  *)
(*                                                                         *)
(* One caller runs one provider operation at a time.  Every call that      *)
(* leaves the process (ledger client, provider query, sleep, progress bar, *)
(* connect, disconnect) is appended to `log` in program order, so that     *)
(* ordering and counting properties are statements about `log`.            *)
(***************************************************************************)
EXTENDS Integers, Sequences, FiniteSets

\* ------------------------------------------------------------------ bounds

\* Largest required_confirmations a caller or the network asks for.
MaxConf == 3
\* Largest number of get_nonce polls of one wait.
MaxNoncePolls == 2
\* Largest number of get_block("latest") polls of one wait.
MaxBlockPolls == 3
\* The transaction under test: its nonce and the number of the block that
\* mined it.
TxnNonce == 1
TxnBlock == 1

\* Largest fee, value or amount of gas of a transaction or a block.
MaxAmount == 2

\* ---------------------------------------------------------- program values

\* time.sleep(1) between two get_nonce polls.
NonceSleep == 1
\* time.sleep(5) between two get_block polls.
BlockSleep == 5

\* TransactionStatusEnum
FAILING == 0
NO_ERROR == 1

\* Optional[int]: None, or an int.
None == [isNone |-> TRUE, val |-> 0]
Some(v) == [isNone |-> FALSE, val |-> v]


\* Values the model draws inputs from.
ReqConfs == (0 - 1) .. MaxConf
OptReqConfs == {None} \cup {Some(v) : v \in ReqConfs}
NetReqConfs == {0 - 1, 2}
NonceVals == {TxnNonce - 1, TxnNonce, TxnNonce + 1}
BlockVals == (TxnBlock - 1) .. (TxnBlock + MaxConf + 1)
Statuses == {FAILING, NO_ERROR}
Amounts == 0 .. MaxAmount
OptAmounts == {None} \cup {Some(v) : v \in Amounts}

\* provider_settings: a dict over two keys; Absent means the key is not in it.
Keys == {"uri", "chain_id"}
Absent == "absent"
SettingVals == {Absent, "a", "b"}
Dicts == [Keys -> SettingVals]

\* The callers that await a receipt each on the same provider, and the depths
\* their receipts require.
Waiters == {"w1", "w2"}
WaitDepths == {0, 2}
InitSettings == [k \in Keys |-> IF k = "uri" THEN "a" ELSE Absent]

VARIABLES
    pc,                     \* position of the caller in the running operation
    op,                     \* the provider operation that is running
    result,                 \* how the operation ended
    log,                    \* every external call made, in program order
    inflight,               \* provider queries issued and not yet answered
    txn_rc,                 \* txn.required_confirmations (send_transaction)
    net_rc,                 \* network.required_confirmations
    req_arg,                \* get_transaction's required_confirmations
    receipt_data,           \* wait_for_transaction_receipt's answer
    txn_data,               \* the ledger client's get_transaction answer
    receipt,                \* the decoded ReceiptAPI
    sender_nonce,           \* await_confirmations: sender_nonce
    confirmations_occurred, \* await_confirmations: confirmations_occurred
    bar_confs,              \* ConfirmationsProgressBar._confs
    provider_settings,      \* ProviderAPI.provider_settings
    old_settings,           \* provider_settings when update_settings began
    new_settings,           \* update_settings's argument
    args,                   \* the inputs of a property read or a method call
    ret,                    \* the value it returned
    aborted,                \* the receipt's earlier wait was cancelled
    waits,                  \* the waits of several callers, by caller
    chain                   \* the provider's view of the chain they poll

\* Several callers awaiting their receipts on one provider.
shared == <<waits, chain>>

\* The state the provider's transaction operations never touch.
aux == <<args, ret, aborted, shared>>

vars == <<pc, op, result, log, inflight, txn_rc, net_rc, req_arg, receipt_data,
          txn_data, receipt, sender_nonce, confirmations_occurred, bar_confs,
          provider_settings, old_settings, new_settings, aux>>

\* ------------------------------------------------------------------ helpers

Ev(o, v, a) == [op |-> o, val |-> v, amt |-> a]

NoReceipt == [status |-> NO_ERROR, block_number |-> 0,
              required_confirmations |-> 0, nonce |-> 0]
NoData == [status |-> NO_ERROR, block_number |-> 0, nonce |-> 0]
NoSettings == [k \in Keys |-> Absent]

\* The events of the log made by call `o`, and the values they carry.
Events(o) == SelectSeq(log, LAMBDA e : e.op = o)
Count(o) == Len(Events(o))
Vals(o) == [i \in 1 .. Count(o) |-> Events(o)[i].val]
Positions(o) == {i \in 1 .. Len(log) : log[i].op = o}

\* ------------------------------------------------- ConfirmationsProgressBar

\* __enter__: _update_bar(0) sets the description from _confs and advances
\* the bar by 0.
BarEnter(confs) == <<Ev("bar", confs, 0)>>

\* The setter with the description fed the difference instead of the count.
ConfsSetterReportsDiff(confs, new_value) ==
    IF new_value = confs
    THEN <<confs, <<>>>>
    ELSE <<new_value, <<Ev("bar", new_value - confs, new_value - confs)>>>>

\* The setter advancing the bar by the new count instead of the difference.
ConfsSetterUpdatesByValue(confs, new_value) ==
    IF new_value = confs
    THEN <<confs, <<>>>>
    ELSE <<new_value, <<Ev("bar", new_value, new_value)>>>>

\* The setter without its early return: an unchanged count updates the bar.
ConfsSetterAlwaysUpdates(confs, new_value) ==
    <<new_value, <<Ev("bar", new_value, new_value - confs)>>>>

\* The confs setter: nothing when the value is unchanged, otherwise store it
\* and _update_bar(diff).  The result is <<new _confs, bar events>>.
ConfsSetter(confs, new_value) ==
    IF new_value = confs
    THEN <<confs, <<>>>>
    ELSE <<new_value, <<Ev("bar", new_value, new_value - confs)>>>>

\* ------------------------------------------ ReceiptAPI.await_confirmations

\* The nonce loop written with <= : a lower nonce keeps the loop going.
NonceNotAbove(sn, nonce) == sn <= nonce

\* The nonce loop written with < : an equal nonce ends the loop.
NonceBelow(sn, nonce) == sn < nonce

\* while sender_nonce == self.nonce
NonceUnchanged(sn, nonce) == sn = nonce

\* The early return taken only for a negative depth.
NegativeConfirmations(rc) == rc < 0

\* if self.required_confirmations == 0: return self
ZeroConfirmations(rc) == rc = 0

\* The depth loop written with != : an overshoot keeps polling.
NotYetExactly(occurred, rc) == occurred # rc

\* while confirmations_occurred < self.required_confirmations
NeedMoreConfirmations(occurred, rc) == occurred < rc

\* The count taken from the receipt's own block inclusive.
ConfirmationsInclusive(latest, block_number) == latest - block_number + 1

\* The count taken as a distance: a head below the receipt's block counts.
ConfirmationsAbs(latest, block_number) ==
    IF latest >= block_number
    THEN latest - block_number ELSE block_number - latest

\* The count taken the wrong way round.
ConfirmationsReversed(latest, block_number) == block_number - latest

\* confirmations_occurred = latest_block.number - self.block_number
ConfirmationsOf(latest, block_number) == latest - block_number

\* The break taken on any count up to the required depth.
ReachedAtMost(occurred, rc) == occurred <= rc

\* if confirmations_occurred == self.required_confirmations: break
ReachedExactly(occurred, rc) == occurred = rc

\* self.provider.get_nonce(self.sender) is issued.
CallGetNonce ==
    /\ pc \in {"ac_begin", "ac_nonce_again"}
    /\ Count("get_nonce") < MaxNoncePolls
    /\ log' = Append(log, Ev("get_nonce", 0, 0))
    /\ inflight' = inflight + 1
    /\ pc' = "ac_nonce_ret"
    /\ UNCHANGED <<op, result, txn_rc, net_rc, req_arg, receipt_data, txn_data,
                   receipt, sender_nonce, confirmations_occurred, bar_confs,
                   provider_settings, old_settings, new_settings, aux>>

\* The provider answers get_nonce; the while condition is evaluated.
RetGetNonce ==
    /\ pc = "ac_nonce_ret"
    /\ \E v \in NonceVals :
          /\ sender_nonce' = v
          /\ log' = Append(log, Ev("nonce", v, 0))
          /\ pc' = IF NonceUnchanged(v, receipt.nonce)
                   THEN "ac_nonce_sleep" ELSE "ac_settled"
    /\ inflight' = inflight - 1
    /\ UNCHANGED <<op, result, txn_rc, net_rc, req_arg, receipt_data, txn_data,
                   receipt, confirmations_occurred, bar_confs,
                   provider_settings, old_settings, new_settings, aux>>

\* time.sleep(1) in the nonce loop.
SleepNonce ==
    /\ pc = "ac_nonce_sleep"
    /\ log' = Append(log, Ev("sleep", NonceSleep, 0))
    /\ pc' = "ac_nonce_again"
    /\ UNCHANGED <<op, result, inflight, txn_rc, net_rc, req_arg, receipt_data,
                   txn_data, receipt, sender_nonce, confirmations_occurred,
                   bar_confs, provider_settings, old_settings, new_settings, aux>>

\* required_confirmations == 0: return self.
ReturnUnconfirmed ==
    /\ pc = "ac_settled"
    /\ ZeroConfirmations(receipt.required_confirmations)
    /\ pc' = "done"
    /\ result' = "receipt"
    /\ UNCHANGED <<op, log, inflight, txn_rc, net_rc, req_arg, receipt_data,
                   txn_data, receipt, sender_nonce, confirmations_occurred,
                   bar_confs, provider_settings, old_settings, new_settings, aux>>

\* confirmations_occurred = 0; with ConfirmationsProgressBar(...) as bar:
\* __init__ sets _confs = 0 and __enter__ updates the bar by 0.
EnterProgressBar ==
    /\ pc = "ac_settled"
    /\ ~ZeroConfirmations(receipt.required_confirmations)
    /\ confirmations_occurred' = 0
    /\ bar_confs' = 0
    /\ log' = log \o BarEnter(0)
    /\ pc' = "ac_loop"
    /\ UNCHANGED <<op, result, inflight, txn_rc, net_rc, req_arg, receipt_data,
                   txn_data, receipt, sender_nonce, provider_settings,
                   old_settings, new_settings, aux>>

\* The while condition holds: self.provider.get_block("latest") is issued.
CallGetBlock ==
    /\ pc = "ac_loop"
    /\ NeedMoreConfirmations(confirmations_occurred,
                             receipt.required_confirmations)
    /\ Count("get_block") < MaxBlockPolls
    /\ log' = Append(log, Ev("get_block", 0, 0))
    /\ inflight' = inflight + 1
    /\ pc' = "ac_block_ret"
    /\ UNCHANGED <<op, result, txn_rc, net_rc, req_arg, receipt_data, txn_data,
                   receipt, sender_nonce, confirmations_occurred, bar_confs,
                   provider_settings, old_settings, new_settings, aux>>

\* The answer handled with the head stored on the receipt, from which the
\* next count is taken.
RetGetBlockMovesReceipt ==
    /\ pc = "ac_block_ret"
    /\ \E latest \in BlockVals :
          LET occurred == ConfirmationsOf(latest, receipt.block_number)
              bar == ConfsSetter(bar_confs, occurred)
          IN  /\ confirmations_occurred' = occurred
              /\ bar_confs' = bar[1]
              /\ receipt' = [receipt EXCEPT !.block_number = latest]
              /\ log' = Append(log, Ev("block", latest, 0)) \o bar[2]
              /\ pc' = IF ReachedExactly(occurred,
                                         receipt.required_confirmations)
                       THEN "ac_exit" ELSE "ac_block_sleep"
    /\ inflight' = inflight - 1
    /\ UNCHANGED <<op, result, txn_rc, net_rc, req_arg, receipt_data, txn_data,
                   sender_nonce, provider_settings, old_settings,
                   new_settings, aux>>

\* The provider answers get_block: the count is computed and handed to the
\* progress bar, then the loop breaks on an exact hit or goes to sleep.
RetGetBlock ==
    /\ pc = "ac_block_ret"
    /\ \E latest \in BlockVals :
          LET occurred == ConfirmationsOf(latest, receipt.block_number)
              bar == ConfsSetter(bar_confs, occurred)
          IN  /\ confirmations_occurred' = occurred
              /\ bar_confs' = bar[1]
              /\ log' = Append(log, Ev("block", latest, 0)) \o bar[2]
              /\ pc' = IF ReachedExactly(occurred,
                                         receipt.required_confirmations)
                       THEN "ac_exit" ELSE "ac_block_sleep"
    /\ inflight' = inflight - 1
    /\ UNCHANGED <<op, result, txn_rc, net_rc, req_arg, receipt_data, txn_data,
                   receipt, sender_nonce, provider_settings, old_settings,
                   new_settings, aux>>

\* time.sleep(5) at the end of the loop body.
SleepBlock ==
    /\ pc = "ac_block_sleep"
    /\ log' = Append(log, Ev("sleep", BlockSleep, 0))
    /\ pc' = "ac_loop"
    /\ UNCHANGED <<op, result, inflight, txn_rc, net_rc, req_arg, receipt_data,
                   txn_data, receipt, sender_nonce, confirmations_occurred,
                   bar_confs, provider_settings, old_settings, new_settings, aux>>

\* The while condition fails: the loop is left.
LeaveLoop ==
    /\ pc = "ac_loop"
    /\ ~NeedMoreConfirmations(confirmations_occurred,
                              receipt.required_confirmations)
    /\ pc' = "ac_exit"
    /\ UNCHANGED <<op, result, log, inflight, txn_rc, net_rc, req_arg,
                   receipt_data, txn_data, receipt, sender_nonce,
                   confirmations_occurred, bar_confs, provider_settings,
                   old_settings, new_settings, aux>>

\* __exit__ closes the bar; return self.
ReturnConfirmed ==
    /\ pc = "ac_exit"
    /\ log' = Append(log, Ev("bar_close", 0, 0))
    /\ pc' = "done"
    /\ result' = "receipt"
    /\ UNCHANGED <<op, inflight, txn_rc, net_rc, req_arg, receipt_data,
                   txn_data, receipt, sender_nonce, confirmations_occurred,
                   bar_confs, provider_settings, old_settings, new_settings, aux>>

\* ------------------------------------------------------------ Web3Provider

\* The argument check off by one.
IsBelowMinusOne(rc) == rc < 0 - 1

\* if required_confirmations < 0: raise TransactionError
IsNegative(rc) == rc < 0

\* receipt_class.decode({"provider": self, "required_confirmations": rc,
\* **txn, **receipt_data}): the ledger's answers carry no
\* required_confirmations key, so the argument is what the receipt records.
DecodeReceipt(rc, txn, data) ==
    [status |-> data.status, block_number |-> data.block_number,
     required_confirmations |-> rc, nonce |-> txn.nonce]

\* The selection by truthiness: a transaction's 0 falls back to the network.
SelectReqConfsTruthy(t, n) == IF ~t.isNone /\ t.val # 0 THEN t.val ELSE n

\* txn.required_confirmations if it is not None, else the network's.
SelectReqConfs(t, n) == IF ~t.isNone THEN t.val ELSE n

\* The merge with setdefault semantics: keys already present are kept.
MergeKeepsOld(old, new) ==
    [k \in Keys |-> IF old[k] # Absent THEN old[k] ELSE new[k]]

\* provider_settings.update(new_settings)
Merge(old, new) == [k \in Keys |-> IF new[k] # Absent THEN new[k] ELSE old[k]]

\* A caller invokes receipt.await_confirmations() on a receipt it holds.
StartAwait ==
    /\ pc = "idle"
    /\ \E rc \in ReqConfs, st \in Statuses :
          receipt' = [status |-> st, block_number |-> TxnBlock,
                      required_confirmations |-> rc, nonce |-> TxnNonce]
    /\ op' = "await_confirmations"
    /\ pc' = "ac_begin"
    /\ UNCHANGED <<result, log, inflight, txn_rc, net_rc, req_arg, receipt_data,
                   txn_data, sender_nonce, confirmations_occurred, bar_confs,
                   provider_settings, old_settings, new_settings, aux>>

\* A caller invokes get_transaction(txn_hash, required_confirmations).
StartGetTransaction ==
    /\ pc = "idle"
    /\ \E rc \in ReqConfs : req_arg' = rc
    /\ op' = "get_transaction"
    /\ pc' = "gt_check"
    /\ UNCHANGED <<result, log, inflight, txn_rc, net_rc, receipt_data,
                   txn_data, receipt, sender_nonce, confirmations_occurred,
                   bar_confs, provider_settings, old_settings, new_settings, aux>>

\* A caller invokes send_transaction(txn) on a network with a default depth.
StartSendTransaction ==
    /\ pc = "idle"
    /\ \E t \in OptReqConfs, n \in NetReqConfs :
          /\ txn_rc' = t
          /\ net_rc' = n
    /\ op' = "send_transaction"
    /\ pc' = "st_send"
    /\ UNCHANGED <<result, log, inflight, req_arg, receipt_data, txn_data,
                   receipt, sender_nonce, confirmations_occurred, bar_confs,
                   provider_settings, old_settings, new_settings, aux>>

\* The broadcast with one more try after a failed send.
SendRawTransactionRetries ==
    /\ pc = "st_send"
    /\ log' = Append(log, Ev("send_raw_transaction", 0, 0))
    /\ \E accepted \in BOOLEAN :
          IF accepted
          THEN pc' = "st_select" /\ result' = result
          ELSE IF Count("send_raw_transaction") = 0
               THEN pc' = "st_send" /\ result' = result
               ELSE pc' = "done" /\ result' = "SendError"
    /\ UNCHANGED <<op, inflight, txn_rc, net_rc, req_arg, receipt_data, txn_data,
                   receipt, sender_nonce, confirmations_occurred, bar_confs,
                   provider_settings, old_settings, new_settings, aux>>

\* txn_hash = self._web3.eth.send_raw_transaction(txn.encode()); the node
\* accepts the transaction or the call raises.
SendRawTransaction ==
    /\ pc = "st_send"
    /\ log' = Append(log, Ev("send_raw_transaction", 0, 0))
    /\ \E accepted \in BOOLEAN :
          IF accepted
          THEN pc' = "st_select" /\ result' = result
          ELSE pc' = "done" /\ result' = "SendError"
    /\ UNCHANGED <<op, inflight, txn_rc, net_rc, req_arg, receipt_data, txn_data,
                   receipt, sender_nonce, confirmations_occurred, bar_confs,
                   provider_settings, old_settings, new_settings, aux>>

\* req_confs = ...; self.get_transaction(txn_hash.hex(), req_confs)
CallGetTransaction ==
    /\ pc = "st_select"
    /\ req_arg' = SelectReqConfs(txn_rc, net_rc)
    /\ pc' = "gt_check"
    /\ UNCHANGED <<op, result, log, inflight, txn_rc, net_rc, receipt_data,
                   txn_data, receipt, sender_nonce, confirmations_occurred,
                   bar_confs, provider_settings, old_settings, new_settings, aux>>

\* get_transaction's argument check.
CheckRequiredConfirmations ==
    /\ pc = "gt_check"
    /\ IF IsNegative(req_arg)
       THEN pc' = "done" /\ result' = "TransactionError"
       ELSE pc' = "gt_receipt" /\ result' = result
    /\ UNCHANGED <<op, log, inflight, txn_rc, net_rc, req_arg, receipt_data,
                   txn_data, receipt, sender_nonce, confirmations_occurred,
                   bar_confs, provider_settings, old_settings, new_settings, aux>>

\* receipt_data = self._web3.eth.wait_for_transaction_receipt(...)
WaitForTransactionReceipt ==
    /\ pc = "gt_receipt"
    /\ log' = Append(log, Ev("wait_for_transaction_receipt", 0, 0))
    /\ \E st \in Statuses :
          receipt_data' = [status |-> st, block_number |-> TxnBlock, nonce |-> 0]
    /\ pc' = "gt_txn"
    /\ UNCHANGED <<op, result, inflight, txn_rc, net_rc, req_arg, txn_data,
                   receipt, sender_nonce, confirmations_occurred, bar_confs,
                   provider_settings, old_settings, new_settings, aux>>

\* txn = self._web3.eth.get_transaction(txn_hash)
EthGetTransaction ==
    /\ pc = "gt_txn"
    /\ log' = Append(log, Ev("eth_get_transaction", 0, 0))
    /\ txn_data' = [status |-> NO_ERROR, block_number |-> TxnBlock,
                    nonce |-> TxnNonce]
    /\ pc' = "gt_decode"
    /\ UNCHANGED <<op, result, inflight, txn_rc, net_rc, req_arg, receipt_data,
                   receipt, sender_nonce, confirmations_occurred, bar_confs,
                   provider_settings, old_settings, new_settings, aux>>

\* receipt = receipt_class.decode(...); return receipt.await_confirmations()
Decode ==
    /\ pc = "gt_decode"
    /\ receipt' = DecodeReceipt(req_arg, txn_data, receipt_data)
    /\ log' = Append(log, Ev("decode", 0, 0))
    /\ pc' = "ac_begin"
    /\ UNCHANGED <<op, result, inflight, txn_rc, net_rc, req_arg, receipt_data,
                   txn_data, sender_nonce, confirmations_occurred, bar_confs,
                   provider_settings, old_settings, new_settings, aux>>

\* A caller invokes update_settings(new_settings).
StartUpdateSettings ==
    /\ pc = "idle"
    /\ \E d \in Dicts : new_settings' = d
    /\ old_settings' = provider_settings
    /\ op' = "update_settings"
    /\ pc' = "us_disconnect"
    /\ UNCHANGED <<result, log, inflight, txn_rc, net_rc, req_arg, receipt_data,
                   txn_data, receipt, sender_nonce, confirmations_occurred,
                   bar_confs, provider_settings, aux>>

\* self.disconnect(): abstract, it returns or raises.
Disconnect ==
    /\ pc = "us_disconnect"
    /\ log' = Append(log, Ev("disconnect", 0, 0))
    /\ \E ok \in BOOLEAN :
          IF ok
          THEN pc' = "us_merge" /\ result' = result
          ELSE pc' = "done" /\ result' = "DisconnectError"
    /\ UNCHANGED <<op, inflight, txn_rc, net_rc, req_arg, receipt_data, txn_data,
                   receipt, sender_nonce, confirmations_occurred, bar_confs,
                   provider_settings, old_settings, new_settings, aux>>

\* self.provider_settings.update(new_settings)
UpdateProviderSettings ==
    /\ pc = "us_merge"
    /\ provider_settings' = Merge(provider_settings, new_settings)
    /\ pc' = "us_connect"
    /\ UNCHANGED <<op, result, log, inflight, txn_rc, net_rc, req_arg,
                   receipt_data, txn_data, receipt, sender_nonce,
                   confirmations_occurred, bar_confs, old_settings,
                   new_settings, aux>>

\* self.connect(): abstract, it returns or raises.
Connect ==
    /\ pc = "us_connect"
    /\ log' = Append(log, Ev("connect", 0, 0))
    /\ pc' = "done"
    /\ \E ok \in BOOLEAN : result' = IF ok THEN "ok" ELSE "ConnectError"
    /\ UNCHANGED <<op, inflight, txn_rc, net_rc, req_arg, receipt_data, txn_data,
                   receipt, sender_nonce, confirmations_occurred, bar_confs,
                   provider_settings, old_settings, new_settings, aux>>

\* update_settings has returned or raised and the caller goes on to its next
\* call; only provider_settings outlives the operation.
Finish ==
    /\ pc = "done"
    /\ op = "update_settings"
    /\ pc' = "idle"
    /\ op' = "none"
    /\ result' = "none"
    /\ log' = <<>>
    /\ txn_rc' = None
    /\ net_rc' = 0
    /\ req_arg' = 0
    /\ receipt_data' = NoData
    /\ txn_data' = NoData
    /\ receipt' = NoReceipt
    /\ sender_nonce' = 0
    /\ confirmations_occurred' = 0
    /\ bar_confs' = 0
    /\ old_settings' = provider_settings
    /\ new_settings' = NoSettings
    /\ UNCHANGED <<inflight, provider_settings, aux>>

\* ------------------------------------------------- Web3Provider.base_fee

\* The test written as `not base_fee`: a base fee of 0 counts as absent.
BaseFeeFalsy(b) == b.isNone \/ b.val = 0

\* if block.gas_data.base_fee is None
BaseFeeAbsent(b) == b.isNone

\* A caller reads provider.base_fee.
StartBaseFee ==
    /\ pc = "idle"
    /\ op' = "base_fee"
    /\ pc' = "bf_block"
    /\ UNCHANGED <<result, log, inflight, txn_rc, net_rc, req_arg, receipt_data,
                   txn_data, receipt, sender_nonce, confirmations_occurred,
                   bar_confs, provider_settings, old_settings, new_settings,
                   aux>>

\* block = self.get_block("latest"): the block's gas_data.base_fee is a
\* number, or None on a chain without a fee market.
BaseFeeGetBlock ==
    /\ pc = "bf_block"
    /\ log' = Append(log, Ev("get_block", 0, 0))
    /\ \E b \in OptAmounts : args' = [base_fee |-> b]
    /\ pc' = "bf_check"
    /\ UNCHANGED <<op, result, inflight, txn_rc, net_rc, req_arg, receipt_data,
                   txn_data, receipt, sender_nonce, confirmations_occurred,
                   bar_confs, provider_settings, old_settings, new_settings,
                   ret, aborted, shared>>

\* raise NotImplementedError when the base fee is None, else return it.
BaseFeeReturn ==
    /\ pc = "bf_check"
    /\ IF BaseFeeAbsent(args.base_fee)
       THEN result' = "NotImplementedError" /\ ret' = ret
       ELSE result' = "value" /\ ret' = args.base_fee.val
    /\ pc' = "done"
    /\ UNCHANGED <<op, log, inflight, txn_rc, net_rc, req_arg, receipt_data,
                   txn_data, receipt, sender_nonce, confirmations_occurred,
                   bar_confs, provider_settings, old_settings, new_settings,
                   args, aborted, shared>>

\* --------------------------------------------- cancellation from outside

\* The caller's task is cancelled while the wait sleeps between two polls:
\* the exception leaves the with block, which closes the bar, and the wait.
Abort ==
    /\ pc \in {"ac_nonce_sleep", "ac_block_sleep"}
    /\ log' = IF pc = "ac_block_sleep"
              THEN Append(log, Ev("bar_close", 0, 0)) ELSE log
    /\ pc' = "done"
    /\ result' = "aborted"
    /\ UNCHANGED <<op, inflight, txn_rc, net_rc, req_arg, receipt_data,
                   txn_data, receipt, sender_nonce, confirmations_occurred,
                   bar_confs, provider_settings, old_settings, new_settings,
                   aux>>

\* The caller awaits the receipt of a cancelled wait again: a new call of
\* await_confirmations with fresh locals on the same receipt.
AwaitAgain ==
    /\ pc = "done"
    /\ result = "aborted"
    /\ op' = "await_confirmations"
    /\ pc' = "ac_begin"
    /\ result' = "none"
    /\ log' = <<>>
    /\ txn_rc' = None
    /\ net_rc' = 0
    /\ req_arg' = 0
    /\ receipt_data' = NoData
    /\ txn_data' = NoData
    /\ sender_nonce' = 0
    /\ confirmations_occurred' = 0
    /\ bar_confs' = 0
    /\ aborted' = TRUE
    /\ UNCHANGED <<inflight, receipt, provider_settings, old_settings,
                   new_settings, args, ret, shared>>

\* ------------------------------------------------- TransactionAPI.max_fee

\* The max_fee getter of a transaction that does not override it.
MaxFee(txn_value) == 0

\* total_transfer_value: self.value + self.max_fee
TotalTransferValue(txn_value) == txn_value + MaxFee(txn_value)

\* A caller holding such a transaction assigns txn.max_fee = fee, having
\* read max_fee and total_transfer_value before.
StartSetMaxFee ==
    /\ pc = "idle"
    /\ \E v \in Amounts, f \in Amounts :
          args' = [value |-> v, fee |-> f, max_fee |-> MaxFee(v),
                   total_transfer_value |-> TotalTransferValue(v)]
    /\ op' = "set_max_fee"
    /\ pc' = "mf_set"
    /\ UNCHANGED <<result, log, inflight, txn_rc, net_rc, req_arg, receipt_data,
                   txn_data, receipt, sender_nonce, confirmations_occurred,
                   bar_confs, provider_settings, old_settings, new_settings,
                   ret, aborted, shared>>

\* A setter that accepts the fee and drops it.
SetMaxFeeSilently ==
    /\ pc = "mf_set"
    /\ result' = "ok"
    /\ ret' = [max_fee |-> MaxFee(args.value),
               total_transfer_value |-> TotalTransferValue(args.value)]
    /\ pc' = "done"
    /\ UNCHANGED <<op, log, inflight, txn_rc, net_rc, req_arg, receipt_data,
                   txn_data, receipt, sender_nonce, confirmations_occurred,
                   bar_confs, provider_settings, old_settings, new_settings,
                   args, aborted, shared>>

\* The setter raises NotImplementedError; the caller reads max_fee and
\* total_transfer_value again.
SetMaxFee ==
    /\ pc = "mf_set"
    /\ result' = "NotImplementedError"
    /\ ret' = [max_fee |-> MaxFee(args.value),
               total_transfer_value |-> TotalTransferValue(args.value)]
    /\ pc' = "done"
    /\ UNCHANGED <<op, log, inflight, txn_rc, net_rc, req_arg, receipt_data,
                   txn_data, receipt, sender_nonce, confirmations_occurred,
                   bar_confs, provider_settings, old_settings, new_settings,
                   args, aborted, shared>>

\* ------------------------------------------------ ReceiptAPI.ran_out_of_gas

\* The test with the status left out.
UsedAllGas(status, gas_used, gas_limit) == gas_used = gas_limit

\* self.status == TransactionStatusEnum.FAILING and self.gas_used == gas_limit
RanOutOfGas(status, gas_used, gas_limit) ==
    status = FAILING /\ gas_used = gas_limit

\* A caller holding a receipt calls receipt.ran_out_of_gas(gas_limit).
StartRanOutOfGas ==
    /\ pc = "idle"
    /\ \E st \in Statuses, used \in Amounts, limit \in Amounts :
          args' = [status |-> st, gas_used |-> used, gas_limit |-> limit]
    /\ op' = "ran_out_of_gas"
    /\ pc' = "rg_test"
    /\ UNCHANGED <<result, log, inflight, txn_rc, net_rc, req_arg, receipt_data,
                   txn_data, receipt, sender_nonce, confirmations_occurred,
                   bar_confs, provider_settings, old_settings, new_settings,
                   ret, aborted, shared>>

\* return self.status == FAILING and self.gas_used == gas_limit
RanOutOfGasReturn ==
    /\ pc = "rg_test"
    /\ ret' = RanOutOfGas(args.status, args.gas_used, args.gas_limit)
    /\ result' = "value"
    /\ pc' = "done"
    /\ UNCHANGED <<op, log, inflight, txn_rc, net_rc, req_arg, receipt_data,
                   txn_data, receipt, sender_nonce, confirmations_occurred,
                   bar_confs, provider_settings, old_settings, new_settings,
                   args, aborted, shared>>

\* ------------------------------------ several waits on the same provider

\* The frame of a wait that has not begun.
IdleWait ==
    [pc |-> "idle", receipt |-> NoReceipt, sender_nonce |-> 0,
     confirmations_occurred |-> 0, bar_confs |-> 0, head_seen |-> 0]

\* The receipt caller w holds: the callers' transactions differ in nonce and
\* in the block that mined them.
ReceiptOf(w, rc) ==
    IF w = "w1"
    THEN [status |-> NO_ERROR, block_number |-> TxnBlock,
          required_confirmations |-> rc, nonce |-> TxnNonce]
    ELSE [status |-> NO_ERROR, block_number |-> TxnBlock + 1,
          required_confirmations |-> rc, nonce |-> TxnNonce + 1]

\* Everything outside the waits and the chain.
single == <<pc, op, result, log, inflight, txn_rc, net_rc, req_arg,
            receipt_data, txn_data, receipt, sender_nonce,
            confirmations_occurred, bar_confs, provider_settings,
            old_settings, new_settings, args, ret, aborted>>

\* Caller w's wait moves to frame f; nothing else changes.
WaitBecomes(w, f) ==
    /\ waits' = [waits EXCEPT ![w] = f]
    /\ UNCHANGED <<chain, single>>

\* The chain moves on, or is reorganized: the head and the sender's nonce
\* change behind the provider.
ChainMoves ==
    /\ \E h \in BlockVals, n \in NonceVals :
          /\ [head |-> h, nonce |-> n] # chain
          /\ chain' = [head |-> h, nonce |-> n]
    /\ UNCHANGED <<waits, single>>

\* Caller w invokes await_confirmations on its receipt.
SharedStartAwait(w) ==
    /\ waits[w].pc = "idle"
    /\ \E rc \in WaitDepths :
          WaitBecomes(w, [IdleWait EXCEPT !.pc = "ac_begin",
                                          !.receipt = ReceiptOf(w, rc)])

\* self.provider.get_nonce(self.sender) is issued.
SharedCallGetNonce(w) ==
    /\ waits[w].pc \in {"ac_begin", "ac_nonce_again"}
    /\ WaitBecomes(w, [waits[w] EXCEPT !.pc = "ac_nonce_ret"])

\* The provider answers with the sender's nonce as it stands.
SharedRetGetNonce(w) ==
    /\ waits[w].pc = "ac_nonce_ret"
    /\ WaitBecomes(w, [waits[w] EXCEPT
          !.sender_nonce = chain.nonce,
          !.pc = IF NonceUnchanged(chain.nonce, waits[w].receipt.nonce)
                 THEN "ac_nonce_sleep" ELSE "ac_settled"])

\* time.sleep(1)
SharedSleepNonce(w) ==
    /\ waits[w].pc = "ac_nonce_sleep"
    /\ WaitBecomes(w, [waits[w] EXCEPT !.pc = "ac_nonce_again"])

\* required_confirmations == 0: return self.
SharedReturnUnconfirmed(w) ==
    /\ waits[w].pc = "ac_settled"
    /\ ZeroConfirmations(waits[w].receipt.required_confirmations)
    /\ WaitBecomes(w, [waits[w] EXCEPT !.pc = "done"])

\* confirmations_occurred = 0 and the caller's own progress bar is entered.
SharedEnterProgressBar(w) ==
    /\ waits[w].pc = "ac_settled"
    /\ ~ZeroConfirmations(waits[w].receipt.required_confirmations)
    /\ WaitBecomes(w, [waits[w] EXCEPT !.pc = "ac_loop",
                                       !.confirmations_occurred = 0,
                                       !.bar_confs = 0])

\* The while condition holds: get_block("latest") is issued.
SharedCallGetBlock(w) ==
    /\ waits[w].pc = "ac_loop"
    /\ NeedMoreConfirmations(waits[w].confirmations_occurred,
                             waits[w].receipt.required_confirmations)
    /\ WaitBecomes(w, [waits[w] EXCEPT !.pc = "ac_block_ret"])

\* The provider answers with the head as it stands.
SharedRetGetBlock(w) ==
    /\ waits[w].pc = "ac_block_ret"
    /\ LET occurred == ConfirmationsOf(chain.head,
                                       waits[w].receipt.block_number)
       IN  WaitBecomes(w, [waits[w] EXCEPT
              !.head_seen = chain.head,
              !.confirmations_occurred = occurred,
              !.bar_confs = ConfsSetter(waits[w].bar_confs, occurred)[1],
              !.pc = IF ReachedExactly(occurred,
                          waits[w].receipt.required_confirmations)
                     THEN "ac_exit" ELSE "ac_block_sleep"])

\* time.sleep(5)
SharedSleepBlock(w) ==
    /\ waits[w].pc = "ac_block_sleep"
    /\ WaitBecomes(w, [waits[w] EXCEPT !.pc = "ac_loop"])

\* The while condition fails.
SharedLeaveLoop(w) ==
    /\ waits[w].pc = "ac_loop"
    /\ ~NeedMoreConfirmations(waits[w].confirmations_occurred,
                              waits[w].receipt.required_confirmations)
    /\ WaitBecomes(w, [waits[w] EXCEPT !.pc = "ac_exit"])

\* The bar is closed; return self.
SharedReturnConfirmed(w) ==
    /\ waits[w].pc = "ac_exit"
    /\ WaitBecomes(w, [waits[w] EXCEPT !.pc = "done"])

Init ==
    /\ pc = "idle"
    /\ op = "none"
    /\ result = "none"
    /\ log = <<>>
    /\ inflight = 0
    /\ txn_rc = None
    /\ net_rc = 0
    /\ req_arg = 0
    /\ receipt_data = NoData
    /\ txn_data = NoData
    /\ receipt = NoReceipt
    /\ sender_nonce = 0
    /\ confirmations_occurred = 0
    /\ bar_confs = 0
    /\ provider_settings = InitSettings
    /\ old_settings = InitSettings
    /\ new_settings = NoSettings
    /\ args = <<>>
    /\ ret = 0
    /\ aborted = FALSE
    /\ waits = [w \in Waiters |-> IdleWait]
    /\ chain = [head |-> TxnBlock, nonce |-> TxnNonce]

Next ==
    \/ StartAwait
    \/ StartGetTransaction
    \/ StartSendTransaction
    \/ StartUpdateSettings
    \/ SendRawTransaction
    \/ CallGetTransaction
    \/ CheckRequiredConfirmations
    \/ WaitForTransactionReceipt
    \/ EthGetTransaction
    \/ Decode
    \/ CallGetNonce
    \/ RetGetNonce
    \/ SleepNonce
    \/ ReturnUnconfirmed
    \/ EnterProgressBar
    \/ CallGetBlock
    \/ RetGetBlock
    \/ SleepBlock
    \/ LeaveLoop
    \/ ReturnConfirmed
    \/ Disconnect
    \/ UpdateProviderSettings
    \/ Connect
    \/ StartBaseFee
    \/ BaseFeeGetBlock
    \/ BaseFeeReturn
    \/ Abort
    \/ AwaitAgain
    \/ StartSetMaxFee
    \/ SetMaxFee
    \/ StartRanOutOfGas
    \/ RanOutOfGasReturn

\* One operation on a freshly constructed provider.
Spec == Init /\ [][Next]_vars

\* The provider of a wait that can end: by the last poll the bound allows,
\* get_nonce reports a nonce other than the receipt's and get_block a head at
\* or above receipt.block_number + required_confirmations.
RetGetNonceEventually ==
    /\ RetGetNonce
    /\ Count("get_nonce") = MaxNoncePolls => log'[Len(log) + 1].val # receipt.nonce

RetGetBlockEventually ==
    /\ RetGetBlock
    /\ Count("get_block") = MaxBlockPolls =>
          log'[Len(log) + 1].val >=
              receipt.block_number + receipt.required_confirmations

\* One wait, never cancelled, on such a provider; the waiting thread is
\* never suspended for good.
NextLive ==
    \/ StartAwait
    \/ CallGetNonce
    \/ RetGetNonceEventually
    \/ SleepNonce
    \/ ReturnUnconfirmed
    \/ EnterProgressBar
    \/ CallGetBlock
    \/ RetGetBlockEventually
    \/ SleepBlock
    \/ LeaveLoop
    \/ ReturnConfirmed

SpecLive == Init /\ [][NextLive]_vars /\ WF_vars(NextLive)

\* Several callers await their receipts on one provider while the chain
\* moves; their steps interleave in every order.
NextShared ==
    \/ ChainMoves
    \/ \E w \in Waiters :
          \/ SharedStartAwait(w)
          \/ SharedCallGetNonce(w)
          \/ SharedRetGetNonce(w)
          \/ SharedSleepNonce(w)
          \/ SharedReturnUnconfirmed(w)
          \/ SharedEnterProgressBar(w)
          \/ SharedCallGetBlock(w)
          \/ SharedRetGetBlock(w)
          \/ SharedSleepBlock(w)
          \/ SharedLeaveLoop(w)
          \/ SharedReturnConfirmed(w)

SpecShared == Init /\ [][NextShared]_vars

\* A caller that changes the settings of one provider again and again.
NextSettings ==
    \/ StartUpdateSettings
    \/ Disconnect
    \/ UpdateProviderSettings
    \/ Connect
    \/ Finish

SpecSettings == Init /\ [][NextSettings]_vars

\* ------------------------------------------------------ observed histories

\* The wait is running or has returned its receipt.
WaitPcs == {"ac_begin", "ac_nonce_ret", "ac_nonce_sleep", "ac_nonce_again",
            "ac_settled", "ac_loop", "ac_block_ret", "ac_block_sleep",
            "ac_exit"}
NoncePcs == {"ac_begin", "ac_nonce_ret", "ac_nonce_sleep", "ac_nonce_again"}
Returned == pc = "done" /\ result = "receipt"
InWait == pc \in WaitPcs \/ Returned

Required == receipt.required_confirmations

\* The nonces get_nonce returned, the heads get_block returned, the counts
\* they amount to, and the counts shown on the progress bar.
NoncesSeen == Vals("nonce")
HeadsSeen == Vals("block")
CountsSeen == [i \in 1 .. Len(HeadsSeen) |-> HeadsSeen[i] - receipt.block_number]
Reported == Vals("bar")

NonDecreasing(q) == \A i \in 1 .. Len(q) - 1 : q[i] <= q[i + 1]

\* ------------------------------------------------------------------ claims

\* C1: with required_confirmations = N > 0 the wait returns only once some
\* observed count (latest block number minus receipt.block_number) is >= N,
\* and get_block is never called again after an observation >= N, be it
\* exactly N or an overshoot that skips N.
C1_ReturnsAtFirstDeepEnoughPoll ==
    (InWait /\ Required > 0) =>
        /\ Returned =>
              /\ Len(CountsSeen) >= 1
              /\ CountsSeen[Len(CountsSeen)] >= Required
        /\ \A i \in 1 .. Len(CountsSeen) - 1 : CountsSeen[i] < Required
        /\ \A p \in Positions("block"), q \in Positions("get_block") :
              log[p].val - receipt.block_number >= Required => q < p

\* C1 witness: a wait with N > 0 has returned after an earlier shallow poll
\* and a last poll that overshot N.
C1_Witness ==
    /\ Returned
    /\ Required > 0
    /\ Len(CountsSeen) >= 2
    /\ CountsSeen[Len(CountsSeen)] > Required

\* C2: with required_confirmations = 0 the wait goes from the end of the
\* nonce phase straight to its return: no get_block call, no progress report
\* and no depth-phase step happens.
C2_ZeroDepthSkipsDepthPhase ==
    (InWait /\ Required = 0) =>
        /\ Count("get_block") = 0
        /\ Count("block") = 0
        /\ Count("bar") = 0
        /\ pc \in NoncePcs \cup {"ac_settled", "done"}

\* C2 witness: a wait with depth 0 has returned after the nonce moved.
C2_Witness ==
    /\ Returned
    /\ Required = 0
    /\ op = "await_confirmations"
    /\ Count("nonce") >= 1

\* C3: within one wait every get_block call comes after a get_nonce answer
\* that differs from receipt.nonce, no get_nonce call comes after a get_block
\* call, and at most one provider query is in flight.
C3_NonceBeforeDepthSequential ==
    InWait =>
        /\ \A p \in Positions("get_block") :
              \E q \in Positions("nonce") :
                  q < p /\ log[q].val # receipt.nonce
        /\ \A p \in Positions("get_block"), q \in Positions("get_nonce") : q < p
        /\ inflight <= 1
        /\ inflight = 1 <=> pc \in {"ac_nonce_ret", "ac_block_ret"}

\* C3 witness: a get_block query is in flight after two nonce polls.
C3_Witness ==
    /\ pc = "ac_block_ret"
    /\ Count("get_nonce") >= 2
    /\ Count("get_block") >= 2

C5_NegativeRejectedWithoutCalls ==
    (op = "get_transaction" /\ req_arg < 0) =>
        /\ log = <<>>
        /\ pc \in {"gt_check", "done"}
        /\ pc = "done" => result = "TransactionError"

\* C5 witness: get_transaction(-1) has raised TransactionError.
C5_Witness ==
    /\ op = "get_transaction"
    /\ req_arg < 0
    /\ pc = "done"
    /\ result = "TransactionError"

\* The depth send_transaction has to await: the transaction's own when it is
\* set, the network's default otherwise.
Effective == IF txn_rc.isNone THEN net_rc ELSE txn_rc.val

\* C6: send_transaction with a negative effective required confirmations
\* is rejected before any network activity: nothing is broadcast through
\* send_raw_transaction and no receipt is fetched or polled for.
C6_NegativeSendRejectedBeforeBroadcast ==
    (op = "send_transaction" /\ Effective < 0) => log = <<>>

\* C7 as stated: for N > 0 the counts reported to the progress bar are
\* non-decreasing and the last one is >= N once the wait has returned,
\* whatever heads the provider reports.
C7_ProgressMonotoneAlways ==
    (InWait /\ Required > 0) =>
        /\ NonDecreasing(Reported)
        /\ Returned => Reported[Len(Reported)] >= Required

\* The provider's heads never go back and never lie below the receipt's block.
ChainAdvances ==
    /\ NonDecreasing(HeadsSeen)
    /\ \A i \in 1 .. Len(HeadsSeen) : HeadsSeen[i] >= receipt.block_number

\* C7 amended: for N > 0 the last count reported is >= N once the wait has
\* returned, whatever heads the provider reports; the reported counts are
\* non-decreasing whenever the reported heads never decrease and never lie
\* below receipt.block_number.
C7_ProgressMonotoneOnAdvancingChain ==
    (InWait /\ Required > 0) =>
        /\ ChainAdvances => NonDecreasing(Reported)
        /\ Returned =>
              /\ Len(Reported) >= 2
              /\ Reported[Len(Reported)] >= Required

\* C7 witness: a wait with N > 0 has returned on an advancing chain after
\* the bar showed three different counts.
C7_Witness ==
    /\ Returned
    /\ Required > 0
    /\ ChainAdvances
    /\ Len(Reported) >= 3

\* The backend of the end-to-end scenario, as far as it has answered: the
\* receipt is a successful one, the first nonce answer already shows the
\* incremented nonce, and the k-th get_block answer is k blocks above the
\* receipt's block.
ScenarioBackend ==
    /\ receipt_data.status = NO_ERROR
    /\ \A i \in 1 .. Len(NoncesSeen) : NoncesSeen[i] = TxnNonce + 1
    /\ \A k \in 1 .. Len(HeadsSeen) : HeadsSeen[k] = TxnBlock + k

\* C8: on the scenario backend, send_transaction with required
\* confirmations 3 makes exactly 1 get_nonce call, then exactly 3 get_block
\* calls, and returns a receipt whose status is NO_ERROR.
C8_EndToEndPollCounts ==
    (op = "send_transaction" /\ Effective = 3 /\ ScenarioBackend) =>
        /\ Count("get_nonce") <= 1
        /\ Count("get_block") <= 3
        /\ Returned =>
              /\ Count("get_nonce") = 1
              /\ Count("get_block") = 3
              /\ \A p \in Positions("get_nonce"), q \in Positions("get_block") :
                    p < q
              /\ receipt.status = NO_ERROR

\* C8 witness: the scenario has run to its return.
C8_Witness ==
    /\ op = "send_transaction"
    /\ Effective = 3
    /\ ScenarioBackend
    /\ Returned
    /\ HeadsSeen = <<TxnBlock + 1, TxnBlock + 2, TxnBlock + 3>>

\* C9: send_transaction hands get_transaction the transaction's own
\* required_confirmations whenever it is not None, 0 included, and the
\* network's default only when it is None; the decoded receipt records that
\* depth and the wait runs to that depth.
C9_SelectedDepthIsAwaited ==
    op = "send_transaction" =>
        /\ pc \in {"gt_check", "gt_receipt", "gt_txn", "gt_decode"}
              => req_arg = Effective
        /\ InWait =>
              /\ req_arg = Effective
              /\ Required = Effective
        /\ Returned =>
              \/ Effective = 0 /\ Count("get_block") = 0
              \/ /\ Effective > 0
                 /\ Count("block") >= 1
                 /\ CountsSeen[Len(CountsSeen)] >= Effective

\* C9 witness: a transaction asking for depth 0 on a network whose default
\* is 2 has been sent and its receipt returned.
C9_Witness ==
    /\ op = "send_transaction"
    /\ txn_rc = Some(0)
    /\ net_rc = 2
    /\ Returned

\* C10: update_settings disconnects first, then merges new_settings into
\* provider_settings (new keys override, the others are kept), then connects:
\* nothing is merged before disconnect has returned, connect is called only
\* on the merged settings, and a failed disconnect leaves the settings as they
\* were and connect uncalled.
C10_DisconnectMergeConnect ==
    op = "update_settings" =>
        /\ Count("disconnect") = 0 =>
              provider_settings = old_settings /\ Count("connect") = 0
        /\ \A p \in Positions("disconnect"), q \in Positions("connect") : p < q
        /\ (pc = "us_connect" \/ Count("connect") > 0) =>
              \A k \in Keys :
                  provider_settings[k] = IF new_settings[k] # Absent
                                         THEN new_settings[k]
                                         ELSE old_settings[k]
        /\ pc = "us_merge" => provider_settings = old_settings
        /\ result = "DisconnectError" =>
              provider_settings = old_settings /\ Count("connect") = 0

\* C10 witness: update_settings has reconnected with one key overridden and
\* another kept.
C10_Witness ==
    /\ op = "update_settings"
    /\ result = "ok"
    /\ Count("connect") = 1
    /\ \E k \in Keys : new_settings[k] # Absent /\ new_settings[k] # old_settings[k]
    /\ \E k \in Keys : new_settings[k] = Absent /\ old_settings[k] # Absent

\* C11: Web3Provider.base_fee raises NotImplementedError whenever the latest
\* block's base fee is None and returns the block's base fee unchanged
\* whenever it is present, 0 included; an absent base fee is never returned
\* as 0 or as any other number.
C11_BaseFeeAbsentRaises ==
    (op = "base_fee" /\ pc = "done") =>
        /\ args.base_fee = None => result = "NotImplementedError"
        /\ args.base_fee # None =>
              result = "value" /\ Some(ret) = args.base_fee
        /\ result \in {"NotImplementedError", "value"}

\* C11 witness: the base fee of a block whose base fee is 0 was returned.
C11_Witness ==
    /\ op = "base_fee"
    /\ pc = "done"
    /\ args.base_fee = Some(0)
    /\ result = "value"
    /\ ret = 0

\* The count the progress bar shows just before log position p.
ShownBefore(p) ==
    LET B == {i \in Positions("bar") : i < p}
    IN  log[CHOOSE i \in B : \A j \in B : j <= i].val

\* The count observed by the get_block answer at log position p.
CountAt(p) == log[p].val - receipt.block_number

\* The get_block answer at log position p is followed at once by a report
\* of the count it observed.
ReportedAt(p) ==
    /\ p < Len(log)
    /\ log[p + 1].op = "bar"
    /\ log[p + 1].val = CountAt(p)

\* C12 as stated: every get_block observation of the depth phase, one that
\* repeats the count already shown included, produces one report carrying the
\* count just observed.
C12_EveryPollReports ==
    InWait => \A p \in Positions("block") : ReportedAt(p)

\* C12 amended: every get_block observation hands its count to the progress
\* bar; an observation whose count differs from the count the bar shows
\* produces exactly one report carrying the count just observed, and one
\* whose count equals the count the bar shows produces no report.
C12_ChangedCountsReport ==
    InWait =>
        /\ \A p \in Positions("block") :
              IF CountAt(p) # ShownBefore(p)
              THEN ReportedAt(p)
              ELSE p = Len(log) \/ log[p + 1].op # "bar"
        /\ Count("bar") <= 1 + Count("block")
        /\ pc \in {"ac_loop", "ac_block_sleep", "ac_exit", "done"} /\ Required # 0
              => bar_confs = confirmations_occurred

\* C12 witness: a poll repeated the count the bar showed and a later poll
\* changed it.
C12_Witness ==
    /\ Returned
    /\ \E p \in Positions("block") : CountAt(p) = ShownBefore(p)
    /\ \E p \in Positions("block") : CountAt(p) # ShownBefore(p)
    /\ Count("bar") = Count("block")

\* The receipt is being awaited, or its wait has returned or was cancelled.
Awaited == pc \in WaitPcs \/ (pc = "done" /\ result \in {"receipt", "aborted"})

\* C13: no step of await_confirmations changes a field of the receipt: the
\* elapsed count lives in the call's locals and in the progress bar, the
\* receipt returned is the one awaited, and a wait cancelled between two polls
\* leaves the receipt as it was, to be awaited again.
C13_WaitLeavesReceiptUnchanged ==
    [][Awaited =>
         /\ receipt' = receipt
         /\ pc' = "done" => result' \in {"receipt", "aborted"}
         /\ (pc = "done" /\ result = "aborted" /\ pc' # pc) => pc' = "ac_begin"
      ]_vars

\* C13 witness: a receipt whose first wait was cancelled has been awaited
\* again to its required depth.
C13_Witness ==
    /\ aborted
    /\ Returned
    /\ Required > 0
    /\ Count("block") >= 2
    /\ confirmations_occurred >= Required

\* C14: assigning max_fee on a transaction that does not override the setter
\* fails with NotImplementedError for every value, and max_fee and
\* total_transfer_value read the same after the failed assignment as before
\* it, total_transfer_value being value + max_fee both times.
C14_MaxFeeNotSettable ==
    (op = "set_max_fee" /\ pc = "done") =>
        /\ result = "NotImplementedError"
        /\ ret.max_fee = args.max_fee
        /\ ret.total_transfer_value = args.total_transfer_value
        /\ args.total_transfer_value = args.value + args.max_fee
        /\ ret.total_transfer_value = args.value + ret.max_fee

\* C14 witness: assigning a positive fee to a transaction with a positive
\* value has failed.
C14_Witness ==
    /\ op = "set_max_fee"
    /\ pc = "done"
    /\ result = "NotImplementedError"
    /\ args.fee > 0
    /\ args.value > 0

\* C15: ran_out_of_gas(gas_limit) is true exactly when the status is FAILING
\* and gas_used equals gas_limit; it is false for NO_ERROR with gas_used =
\* gas_limit and for FAILING with gas_used one below or above the limit.
C15_RanOutOfGasIff ==
    (op = "ran_out_of_gas" /\ pc = "done") =>
        /\ ret \in BOOLEAN
        /\ ret <=> (args.status = FAILING /\ args.gas_used = args.gas_limit)
        /\ args.status = NO_ERROR => ~ret
        /\ args.gas_used < args.gas_limit => ~ret
        /\ args.gas_used > args.gas_limit => ~ret

\* C15 witness: the answer for a successful receipt that used exactly the
\* gas limit.
C15_Witness ==
    /\ op = "ran_out_of_gas"
    /\ pc = "done"
    /\ args.status = NO_ERROR
    /\ args.gas_used = args.gas_limit
    /\ ret = FALSE

\* The last value of a sequence of numbers, or `d` when it is empty.
LastOr(q, d) == IF Len(q) = 0 THEN d ELSE q[Len(q)]

\* C16: on a provider that comes to report a nonce other than the receipt's
\* and heads at or above receipt.block_number + required_confirmations, a
\* wait that has begun returns; and a wait never ends for any other reason
\* than its conditions being met: it has no timeout and no poll limit of its
\* own.
C16_WaitReturnsOnceConditionsHold ==
    /\ (pc = "ac_begin") ~> Returned
    /\ [](pc = "done" =>
            /\ Returned
            /\ LastOr(NoncesSeen, receipt.nonce) # receipt.nonce
            /\ Required > 0 => LastOr(CountsSeen, 0) >= Required)

\* C16 witness: a wait has returned at the last poll the bound allows, in
\* both phases.
C16_Witness ==
    /\ Returned
    /\ Required > 0
    /\ Count("get_nonce") = MaxNoncePolls
    /\ Count("get_block") = MaxBlockPolls

\* Every call `a` in the log comes before every call `b`.
Before(a, b) == \A p \in Positions(a), q \in Positions(b) : p < q

\* The steps of send_transaction, in the order of the code.
SendSteps == <<"send_raw_transaction", "wait_for_transaction_receipt",
               "eth_get_transaction", "decode">>
PollCalls == {"get_nonce", "get_block", "sleep", "bar"}

\* C17: send_transaction broadcasts the encoded transaction once, a failed
\* send ends the call without another try, and the steps run in the order
\* send_raw_transaction, wait_for_transaction_receipt, get_transaction of the
\* ledger client, decode, await_confirmations: no poll comes before the
\* decode, and the receipt is returned only when the wait has finished.
C17_SendOnceThenFetchThenWait ==
    op = "send_transaction" =>
        /\ \A i \in 1 .. 4 : Count(SendSteps[i]) <= 1
        /\ \A i \in 1 .. 3 :
              /\ Before(SendSteps[i], SendSteps[i + 1])
              /\ Count(SendSteps[i + 1]) <= Count(SendSteps[i])
        /\ \A c \in PollCalls :
              /\ Before("decode", c)
              /\ Count(c) > 0 => Count("decode") = 1
        /\ pc # "st_send" => Count("send_raw_transaction") = 1
        /\ result = "SendError" => Len(log) = 1
        /\ (pc = "done" /\ result = "receipt") =>
              /\ \A i \in 1 .. 4 : Count(SendSteps[i]) = 1
              /\ LastOr(NoncesSeen, receipt.nonce) # receipt.nonce
              /\ Required > 0 => LastOr(CountsSeen, 0) >= Required

\* C17 witness: send_transaction has returned a receipt after a wait of
\* two nonce polls and two depth polls.
C17_Witness ==
    /\ op = "send_transaction"
    /\ Returned
    /\ Count("get_nonce") = 2
    /\ Count("get_block") = 2

\* Between two consecutive calls of `call` lies exactly one sleep, of
\* duration d.
OneSleepBetween(call, d) ==
    \A p \in Positions(call), q \in Positions(call) :
        (p < q /\ ~\E r \in Positions(call) : p < r /\ r < q) =>
            LET S == {s \in Positions("sleep") : p < s /\ s < q}
            IN  Cardinality(S) = 1 /\ \A s \in S : log[s].val = d

\* Every sleep of duration d is followed by another call of `call`.
SleepThenPoll(call, d) ==
    \A s \in Positions("sleep") :
        log[s].val = d => \E q \in Positions(call) : q > s

\* C18: two consecutive get_nonce polls are separated by exactly one sleep
\* of 1, two consecutive get_block polls by exactly one sleep of 5, and no
\* sleep follows the poll that ends a phase: the wait returns without a
\* trailing sleep.
C18_SleepsOnlyBetweenPolls ==
    InWait =>
        /\ OneSleepBetween("get_nonce", NonceSleep)
        /\ OneSleepBetween("get_block", BlockSleep)
        /\ pc \notin NoncePcs => SleepThenPoll("get_nonce", NonceSleep)
        /\ Returned => SleepThenPoll("get_block", BlockSleep)

\* The get_block answer at log position p shows a reorganization: a count
\* below zero or below an earlier one.
Reorged(p) ==
    \/ CountAt(p) < 0
    \/ \E q \in Positions("block") : q < p /\ CountAt(q) > CountAt(p)

\* C19: a depth poll that observes a count below an earlier one, or a
\* negative count, raises nothing and ends nothing: the wait sleeps and polls
\* again, and it still returns only on an observation >= N.
C19_ReorgNeitherFailsNorFinishes ==
    (InWait /\ Required > 0) =>
        /\ \A p \in Positions("block") :
              Reorged(p) =>
                  \/ \E q \in Positions("get_block") : q > p
                  \/ /\ pc \in {"ac_block_sleep", "ac_loop"}
                     /\ NeedMoreConfirmations(confirmations_occurred, Required)
        /\ Returned =>
              /\ ~Reorged(CHOOSE p \in Positions("block") :
                              \A q \in Positions("block") : q <= p)
              /\ LastOr(CountsSeen, 0) >= Required

\* C19 witness: a wait has returned although one poll saw a negative count
\* that was also below the count of the poll before it.
C19_Witness ==
    /\ Returned
    /\ Required > 0
    /\ \E p \in Positions("block") :
          /\ CountAt(p) < 0
          /\ \E q \in Positions("block") : q < p /\ CountAt(q) > 0

\* Caller w's wait has seen what it waits for: a nonce other than its
\* receipt's and, for a depth above 0, a head deep enough above its block.
ConditionsMet(w) ==
    /\ waits[w].sender_nonce # waits[w].receipt.nonce
    /\ waits[w].receipt.required_confirmations > 0 =>
          waits[w].head_seen - waits[w].receipt.block_number
              >= waits[w].receipt.required_confirmations

\* C20: waits on different receipts interleave on one provider: no step of
\* a wait changes the provider's chain (its queries only read), a step of one
\* wait changes nothing of another wait, and under every interleaving a wait
\* has returned only when its own nonce and depth conditions are met, and is
\* still waiting only while they are not.
C20_InterleavedWaitsIndependent ==
    /\ [](\A w \in Waiters :
            /\ waits[w].pc \in {"ac_exit", "done"} => ConditionsMet(w)
            /\ waits[w].pc \in {"ac_settled", "ac_loop", "ac_block_ret",
                                "ac_block_sleep"}
                  => waits[w].sender_nonce # waits[w].receipt.nonce
            /\ waits[w].pc \in {"ac_nonce_sleep", "ac_nonce_again"}
                  => waits[w].sender_nonce = waits[w].receipt.nonce
            /\ (waits[w].pc = "ac_block_sleep"
                  /\ waits[w].receipt.required_confirmations > 0)
                  => waits[w].head_seen - waits[w].receipt.block_number
                        # waits[w].receipt.required_confirmations)
    /\ [][/\ waits' # waits => chain' = chain
          /\ \A w \in Waiters, v \in Waiters :
                (w # v /\ waits'[w] # waits[w]) => waits'[v] = waits[v]
         ]_vars

\* C20 witness: one caller's wait has returned at its depth while the
\* other caller's get_block query is still in flight.
C20_Witness ==
    /\ waits["w1"].pc = "done"
    /\ waits["w1"].receipt.required_confirmations > 0
    /\ waits["w2"].pc = "ac_block_ret"
    /\ waits["w2"].receipt.required_confirmations > 0

\* The sum of the amounts the underlying bar's update was called with in the
\* first n events of the log.
RECURSIVE BarTotal(_)
BarTotal(n) ==
    IF n = 0 THEN 0
    ELSE BarTotal(n - 1) + (IF log[n].op = "bar" THEN log[n].amt ELSE 0)

\* The value confs was last assigned within the first n events of the log:
\* the count of the latest get_block answer, or the 0 of __init__.
AssignedBy(n) ==
    LET B == {i \in Positions("block") : i <= n}
    IN  IF B = {} THEN 0
        ELSE CountAt(CHOOSE i \in B : \A j \in B : j <= i)

\* The progress bar of the running or returned wait has been entered.
BarEntered == InWait /\ Count("bar") > 0

\* C21: once the progress bar is entered, after every sequence of
\* assignments to confs the counter equals the value assigned last, the
\* amounts passed to the underlying bar's update (the 0 of __enter__
\* included) add up to the counter, and an assignment of the value the
\* counter already holds is followed by no bar update.
C21_CounterAndBarInStep ==
    BarEntered =>
        /\ bar_confs = AssignedBy(Len(log))
        /\ BarTotal(Len(log)) = bar_confs
        /\ \A p \in Positions("block") :
              CountAt(p) = AssignedBy(p - 1)
                  => (p = Len(log) \/ log[p + 1].op # "bar")
        /\ \A p \in Positions("bar") :
              (p > 1 /\ log[p - 1].op = "block") => log[p].amt # 0

\* C21 witness: confs was assigned a value, the same value again, and then a
\* lower one, so the bar went up, stayed and went down.
C21_Witness ==
    /\ BarEntered
    /\ Count("block") = 3
    /\ \E p \in Positions("block") : p > 1 /\ CountAt(p) = AssignedBy(p - 1)
    /\ \E p \in Positions("bar") : log[p].amt > 0
    /\ \E p \in Positions("bar") : log[p].amt < 0

====
